---- MODULE Spec2Model ----
(***************************************************************************)
(* Model of algostreamingservice.hpp: the AlgoStreamingService registry    *)
(* (keyed store, listener list, alternation counter), the value types it   *)
(* builds, and the AlgoStreamingServiceListener adapter.                   *)
(*                                                                         *)
(* Doubles are modelled as exact rationals with denominator 200: the       *)
(* integer n stands for n/200 (20000 is 100.0, 4 is 0.02).  Every spread   *)
(* drawn is an even number of such units so that spread/2 is exact, as     *)
(* halving a double is.  Floating point rounding is not modelled.          *)
(*                                                                         *)
(* Listeners are external code.  A listener's ProcessAdd either returns or *)
(* throws; it does not call back into the service.                         *)
(***************************************************************************)
EXTENDS Integers, Sequences, FiniteSets, TLC

VARIABLES
    algoStreamMap,  \* the map member: a set of <<key, AlgoStream>> pairs
    listeners,      \* the vector member: a sequence of listeners
    count,          \* the long member
    published,      \* history: per product id, the number of publishes so far
    latest,         \* history: per product id, the stream its last publish built
    lastCall,       \* the last operation called, with what it did
    order,          \* history: the product ids published, in call order
    exec            \* ThreadSpec only: the calls in progress, statement by statement

vars == <<algoStreamMap, listeners, count, published, latest, lastCall, order, exec>>

(***************************************************************************)
(* Bounds                                                                  *)
(***************************************************************************)
MaxPublishes == 3

MaxListeners == 2

(***************************************************************************)
(* Inputs                                                                  *)
(***************************************************************************)
ProductIds == {"IBM", "T"}

Observers == {"O1", "O2"}

Price(_product, _mid, _bidOfferSpread) ==
    [product |-> _product, mid |-> _mid, bidOfferSpread |-> _bidOfferSpread]

\* IBM at (100.0, 0.02) and (101.0, 0.04); T at (100.0, 0.02) and (100.0, -0.02)
Prices ==
    {Price("IBM", 20000, 4), Price("IBM", 20200, 8),
     Price("T", 20000, 4), Price("T", 20000, -4)}

\* The values the uninitialised member `count` can hold after construction.
IndeterminateLong == {-1, 0, 1}

(***************************************************************************)
(* Value types                                                             *)
(***************************************************************************)
BID == "BID"

OFFER == "OFFER"

PriceStreamOrder(_price, _visibleQuantity, _hiddenQuantity, _side) ==
    [price |-> _price, visibleQuantity |-> _visibleQuantity,
     hiddenQuantity |-> _hiddenQuantity, side |-> _side]

PriceStream(_product, _bidOrder, _offerOrder) ==
    [product |-> _product, bidOrder |-> _bidOrder, offerOrder |-> _offerOrder]

AlgoStream(_priceStream) == [priceStream |-> _priceStream]

GetPriceStream(a) == a.priceStream

GetBidOrder(ps) == ps.bidOrder

GetOfferOrder(ps) == ps.offerOrder

\* Product identity is an opaque string id; the product is modelled by its id.
GetProductId(product) == product

\* The value-initialised objects std::map::operator[] creates: every scalar
\* member zero, the product default constructed.
DefaultProduct == ""

\* Mutant: the members are not zeroed and hold what an earlier order left.
DefaultPriceStreamOrder_NotZeroed == PriceStreamOrder(19998, 1000000, 2000000, BID)

DefaultPriceStreamOrder == PriceStreamOrder(0, 0, 0, BID)

DefaultPriceStream ==
    PriceStream(DefaultProduct, DefaultPriceStreamOrder, DefaultPriceStreamOrder)

DefaultAlgoStream == AlgoStream(DefaultPriceStream)

(***************************************************************************)
(* std::map<string, AlgoStream<T>> as a set of <<key, value>> pairs        *)
(***************************************************************************)
MapKeys(m) == {p[1] : p \in m}

MapFind(m, key) == key \in MapKeys(m)

MapErase(m, key) == {p \in m : p[1] # key}

\* std::map::insert leaves the map alone when the key is already present.
MapInsert(m, key, value) ==
    IF MapFind(m, key) THEN m ELSE m \cup {<<key, value>>}

MapAt(m, key) == (CHOOSE p \in m : p[1] = key)[2]

\* std::map::operator[]: inserts a value-initialised entry for a missing key.
MapIndex(m, key) == MapInsert(m, key, DefaultAlgoStream)

(***************************************************************************)
(* Arithmetic as the code computes it                                      *)
(***************************************************************************)
\* C++ remainder truncates towards zero.
CRem(a, b) == IF a >= 0 THEN a % b ELSE 0 - ((0 - a) % b)

VisibleQuantity(c) == IF CRem(c, 2) = 0 THEN 1000000 ELSE 2000000

\* Mutant: the hidden size is the visible size, not twice it.
HiddenQuantity_NotDoubled(visibleQuantity) == visibleQuantity

HiddenQuantity(visibleQuantity) == visibleQuantity * 2

\* Mutant: the bid is computed like the offer.
BidPrice_Plus(mid, spread) == mid + (spread \div 2)

BidPrice(mid, spread) == mid - (spread \div 2)

OfferPrice(mid, spread) == mid + (spread \div 2)


\* count++ (the model keeps count far from the limits of long)
NextCount(c) == c + 1

\* The stream PublishAlgoStream builds from a price when count is c.
BuildAlgoStream(price, c) ==
    LET product == price.product
        mid == price.mid
        spread == price.bidOfferSpread
        bidPrice == BidPrice(mid, spread)
        offerPrice == OfferPrice(mid, spread)
        visibleQuantity == VisibleQuantity(c)
        hiddenQuantity == HiddenQuantity(visibleQuantity)
        bidOrder == PriceStreamOrder(bidPrice, visibleQuantity, hiddenQuantity, BID)
        offerOrder == PriceStreamOrder(offerPrice, visibleQuantity, hiddenQuantity, OFFER)
        priceStream == PriceStream(product, bidOrder, offerOrder)
    IN  AlgoStream(priceStream)

\* Mutant: an existing entry is erased and the new one is not inserted.
UpdateMap_EraseOnly(m, key, algoStream) ==
    IF MapFind(m, key) THEN MapErase(m, key) ELSE MapInsert(m, key, algoStream)

\* Mutant: the map is cleared before the insert.
UpdateMap_Clear(m, key, algoStream) == MapInsert({}, key, algoStream)

\* Mutant: the erase is forgotten, so insert meets the old entry and keeps it.
UpdateMap_NoErase(m, key, algoStream) == MapInsert(m, key, algoStream)

\* update the algo stream map
UpdateMap(m, key, algoStream) ==
    LET m1 == IF MapFind(m, key) THEN MapErase(m, key) ELSE m
    IN  MapInsert(m1, key, algoStream)

\* Mutant: a publish that replaces an entry signals an update.
NotifySignal_UpdateWhenFound(found) == IF found THEN "ProcessUpdate" ELSE "ProcessAdd"

\* The callback the notification loop invokes on a listener; `found` tells
\* whether the key was in the map before this publish.
NotifySignal(found) == "ProcessAdd"

(***************************************************************************)
(* One call of PublishAlgoStream as the sequence of its effects.  An event *)
(* carries what is observable right after it: `seen` is what the map holds *)
(* for the published key ({} when it holds nothing), `cnt` is count,       *)
(* `data` is the local algoStream and `listener` the listener a            *)
(* notification calls ("" otherwise).                                      *)
(***************************************************************************)
Seen(m, key) == {p[2] : p \in {q \in m : q[1] = key}}

Event(_ev, _listener, _data, _seen, _cnt) ==
    [ev |-> _ev, listener |-> _listener, data |-> _data, seen |-> _seen, cnt |-> _cnt]

\* The listeners the loop reaches: all of them, or those up to the one that
\* throws (throwAt = 0: none throws).
Delivered(ls, throwAt) == IF throwAt = 0 THEN Len(ls) ELSE throwAt

\* Mutant: the loop runs over the listeners from the back.
NotifyEvents_Reversed(m, c, ls, key, found, algoStream, throwAt) ==
    [i \in 1..Delivered(ls, throwAt) |->
        Event(NotifySignal(found), ls[Len(ls) + 1 - i], algoStream, Seen(m, key), c)]

NotifyEvents(m, c, ls, key, found, algoStream, throwAt) ==
    [i \in 1..Delivered(ls, throwAt) |->
        Event(NotifySignal(found), ls[i], algoStream, Seen(m, key), c)]

\* Mutant: the listeners are notified before the map is updated.
PublishRun_NotifyFirst(m, c, ls, price, throwAt) ==
    LET key == GetProductId(price.product)
        algoStream == BuildAlgoStream(price, c)
        c1 == NextCount(c)
        found == MapFind(m, key)
        m2 == UpdateMap(m, key, algoStream)
        incr == <<Event("count++", "", algoStream, Seen(m, key), c1)>>
        notes == NotifyEvents(m, c1, ls, key, found, algoStream, throwAt)
        upd == IF throwAt = 0
                 THEN <<Event("update map", "", algoStream, Seen(m2, key), c1)>>
                 ELSE <<>>
        mEnd == IF throwAt = 0 THEN m2 ELSE m
        exit == <<Event(IF throwAt = 0 THEN "return" ELSE "throw", "",
                        algoStream, Seen(mEnd, key), c1)>>
    IN  [map |-> mEnd, cnt |-> c1, stream |-> algoStream,
         trace |-> incr \o notes \o upd \o exit]

\* Mutant: a throwing listener makes the call undo its writes.
PublishRun_Rollback(m, c, ls, price, throwAt) ==
    LET key == GetProductId(price.product)
        algoStream == BuildAlgoStream(price, c)
        c1 == NextCount(c)
        found == MapFind(m, key)
        m2 == UpdateMap(m, key, algoStream)
        incr == <<Event("count++", "", algoStream, Seen(m, key), c1)>>
        upd == <<Event("update map", "", algoStream, Seen(m2, key), c1)>>
        notes == NotifyEvents(m2, c1, ls, key, found, algoStream, throwAt)
        mEnd == IF throwAt = 0 THEN m2 ELSE m
        cEnd == IF throwAt = 0 THEN c1 ELSE c
        exit == <<Event(IF throwAt = 0 THEN "return" ELSE "throw", "",
                        algoStream, Seen(mEnd, key), cEnd)>>
    IN  [map |-> mEnd, cnt |-> cEnd, stream |-> algoStream,
         trace |-> incr \o upd \o notes \o exit]

\* The whole call: the state it leaves and the events in the order of the code.
PublishRun(m, c, ls, price, throwAt) ==
    LET key == GetProductId(price.product)
        algoStream == BuildAlgoStream(price, c)
        c1 == NextCount(c)
        found == MapFind(m, key)
        m2 == UpdateMap(m, key, algoStream)
        incr == <<Event("count++", "", algoStream, Seen(m, key), c1)>>
        upd == <<Event("update map", "", algoStream, Seen(m2, key), c1)>>
        notes == NotifyEvents(m2, c1, ls, key, found, algoStream, throwAt)
        exit == <<Event(IF throwAt = 0 THEN "return" ELSE "throw", "",
                        algoStream, Seen(m2, key), c1)>>
    IN  [map |-> m2, cnt |-> c1, stream |-> algoStream,
         trace |-> incr \o upd \o notes \o exit]

(***************************************************************************)
(* The record of the last operation called                                 *)
(***************************************************************************)
NoPrice == Price("", 0, 0)

Call(_entry, _price, _key, _result, _trace) ==
    [entry |-> _entry, price |-> _price, key |-> _key,
     result |-> _result, trace |-> _trace]

(***************************************************************************)
(* Calls in progress (used by ThreadSpec; Spec runs every call in one      *)
(* step and keeps exec at NoExec).                                         *)
(***************************************************************************)
Threads == {1, 2}

\* A caller thread: where it is in PublishAlgoStream and the call's locals.
\* n numbers the calls in the order they began; c is the value of count the
\* call read; i is the position of the notification loop.
IdleThread ==
    [pc |-> "idle", n |-> 0, price |-> NoPrice, c |-> 0,
     stream |-> DefaultAlgoStream, i |-> 0, threw |-> FALSE]

NoExec ==
    [mode |-> "none", lock |-> 0, thr |-> [t \in Threads |-> IdleThread],
     cur |-> 0, reads |-> <<>>]

(***************************************************************************)
(* Init: the state the constructor leaves.  Its body is empty: the map and *)
(* the vector are empty, and count is left uninitialised.                  *)
(***************************************************************************)
Init ==
    /\ algoStreamMap = {}
    /\ listeners = <<>>
    /\ count \in IndeterminateLong
    /\ published = [id \in ProductIds |-> 0]
    /\ latest = [id \in ProductIds |-> {}]
    /\ lastCall = Call("AlgoStreamingService", NoPrice, "", {}, <<>>)
    /\ order = <<>>
    /\ exec = NoExec

(***************************************************************************)
(* AlgoStreamingService                                                    *)
(***************************************************************************)
GetData(key) ==
    /\ algoStreamMap' = MapIndex(algoStreamMap, key)
    /\ lastCall' = Call("GetData", NoPrice, key, {MapAt(algoStreamMap', key)}, <<>>)
    /\ UNCHANGED <<listeners, count, published, latest, order, exec>>

OnMessage(data) ==
    /\ lastCall' = Call("OnMessage", NoPrice, "", {}, <<>>)
    /\ UNCHANGED <<algoStreamMap, listeners, count, published, latest, order, exec>>

\* Mutant: a listener that is already registered is not added again.
AddListener_NoDuplicates(listener) ==
    /\ Len(listeners) < MaxListeners
    /\ listeners' = IF \E i \in 1..Len(listeners) : listeners[i] = listener
                       THEN listeners
                       ELSE Append(listeners, listener)
    /\ lastCall' = Call("AddListener", NoPrice, listener, {}, <<>>)
    /\ UNCHANGED <<algoStreamMap, count, published, latest, order, exec>>

\* Mutant: a new listener is sent a stream that is already in the map.
AddListener_Replay(listener) ==
    /\ Len(listeners) < MaxListeners
    /\ listeners' = Append(listeners, listener)
    /\ lastCall' = Call("AddListener", NoPrice, listener, {},
                        IF algoStreamMap = {}
                          THEN <<>>
                          ELSE <<Event("ProcessAdd", listener,
                                       (CHOOSE p \in algoStreamMap : TRUE)[2], {}, count)>>)
    /\ UNCHANGED <<algoStreamMap, count, published, latest, order, exec>>

AddListener(listener) ==
    /\ Len(listeners) < MaxListeners
    /\ listeners' = Append(listeners, listener)
    /\ lastCall' = Call("AddListener", NoPrice, listener, {}, <<>>)
    /\ UNCHANGED <<algoStreamMap, count, published, latest, order, exec>>

GetListeners ==
    /\ lastCall' = Call("GetListeners", NoPrice, "", {listeners}, <<>>)
    /\ UNCHANGED <<algoStreamMap, listeners, count, published, latest, order, exec>>

TotalPublished == published["IBM"] + published["T"]

\* The body of PublishAlgoStream, entered through `entry`.
Publish(price, throwAt, entry) ==
    LET key == GetProductId(price.product)
        run == PublishRun(algoStreamMap, count, listeners, price, throwAt)
    IN  /\ TotalPublished < MaxPublishes
        /\ throwAt \in 0..Len(listeners)
        /\ algoStreamMap' = run.map
        /\ count' = run.cnt
        /\ published' = [published EXCEPT ![key] = @ + 1]
        /\ latest' = [latest EXCEPT ![key] = {run.stream}]
        /\ lastCall' = Call(entry, price, key, {}, run.trace)
        /\ order' = Append(order, key)
        /\ UNCHANGED <<listeners, exec>>

PublishAlgoStream(price, throwAt) == Publish(price, throwAt, "PublishAlgoStream")

(***************************************************************************)
(* AlgoStreamingServiceListener                                            *)
(***************************************************************************)
ProcessAdd(price, throwAt) == Publish(price, throwAt, "ProcessAdd")

ProcessRemove(price) ==
    /\ lastCall' = Call("ProcessRemove", NoPrice, "", {}, <<>>)
    /\ UNCHANGED <<algoStreamMap, listeners, count, published, latest, order, exec>>

\* Mutant: an update is forwarded to the service like an add.
ProcessUpdate_Forwarded(price) == Publish(price, 0, "ProcessUpdate")

ProcessUpdate(price) ==
    /\ lastCall' = Call("ProcessUpdate", NoPrice, "", {}, <<>>)
    /\ UNCHANGED <<algoStreamMap, listeners, count, published, latest, order, exec>>

(***************************************************************************)
(* Specification                                                           *)
(***************************************************************************)
Next ==
    \/ \E key \in ProductIds : GetData(key)
    \/ \E p \in algoStreamMap : OnMessage(p[2])
    \/ \E listener \in Observers : AddListener(listener)
    \/ GetListeners
    \/ \E price \in Prices : \E throwAt \in 0..MaxListeners : PublishAlgoStream(price, throwAt)
    \/ \E price \in Prices : \E throwAt \in 0..MaxListeners : ProcessAdd(price, throwAt)
    \/ \E price \in Prices : ProcessRemove(price)
    \/ \E price \in Prices : ProcessUpdate(price)

Spec == Init /\ [][Next]_vars

(***************************************************************************)
(* Vocabulary of the properties                                            *)
(***************************************************************************)
IsPublish == lastCall.entry \in {"PublishAlgoStream", "ProcessAdd"}

\* The notifications of the last call, in the order they were made.
Notes == SelectSeq(lastCall.trace, LAMBDA e : e.listener # "")

\* How the last call ended: "return" or "throw" (publishes only).
Exit == lastCall.trace[Len(lastCall.trace)].ev

\* The stream the last publish built.
Built == lastCall.trace[1].data

Bid(a) == GetBidOrder(GetPriceStream(a))

Offer(a) == GetOfferOrder(GetPriceStream(a))

QuantitiesOk(a) ==
    /\ Bid(a).visibleQuantity \in {1000000, 2000000}
    /\ Bid(a).hiddenQuantity = 2 * Bid(a).visibleQuantity
    /\ Offer(a).visibleQuantity = Bid(a).visibleQuantity
    /\ Offer(a).hiddenQuantity = Bid(a).hiddenQuantity

(***************************************************************************)
(* C1: on a freshly constructed registry the visible quantity of the i-th  *)
(* publish is 1000000 when i is odd and 2000000 when i is even.            *)
(* TotalPublished is i in the state a publish leaves.                      *)
(***************************************************************************)
C1_Alternation ==
    IsPublish =>
        Bid(Built).visibleQuantity =
            (IF TotalPublished % 2 = 1 THEN 1000000 ELSE 2000000)

(***************************************************************************)
(* C2: every Quote Order a publish produces (in the stream it stores and   *)
(* in the stream it hands to each listener) has a visible quantity of      *)
(* 1000000 or 2000000 and a hidden quantity of twice that, the same on     *)
(* the bid and on the offer.                                               *)
(***************************************************************************)
C2_Quantities ==
    /\ \A id \in ProductIds : \A a \in latest[id] : QuantitiesOk(a)
    /\ \A p \in algoStreamMap : p[2] # DefaultAlgoStream => QuantitiesOk(p[2])
    /\ \A i \in DOMAIN lastCall.trace : QuantitiesOk(lastCall.trace[i].data)

C2_Witness ==
    /\ IsPublish
    /\ Len(Notes) = 2
    /\ Bid(Built).visibleQuantity = 2000000
    /\ <<lastCall.key, Built>> \in algoStreamMap

(***************************************************************************)
(* C3: once a product id has been published twice or more, the map holds   *)
(* exactly one entry for it, that entry is the stream its most recent      *)
(* publish built, and GetData for the id returns that stream.              *)
(***************************************************************************)
C3_Upsert ==
    \A id \in ProductIds :
        published[id] >= 2 =>
            /\ Cardinality({p \in algoStreamMap : p[1] = id}) = 1
            /\ Seen(algoStreamMap, id) = latest[id]
            /\ (lastCall.entry = "GetData" /\ lastCall.key = id)
                   => lastCall.result = latest[id]

C3_Witness ==
    /\ lastCall.entry = "GetData"
    /\ published[lastCall.key] >= 2
    /\ lastCall.result = latest[lastCall.key]

(***************************************************************************)
(* C4 as claimed: every publish notifies every entry of the listener list  *)
(* once, in registration order, with the stream it stored.                 *)
(***************************************************************************)
C4_EveryListenerNotified ==
    IsPublish =>
        /\ [i \in 1..Len(Notes) |-> Notes[i].listener] = listeners
        /\ \A i \in 1..Len(Notes) :
               /\ Notes[i].ev = "ProcessAdd"
               /\ Seen(algoStreamMap, lastCall.key) = {Notes[i].data}

(***************************************************************************)
(* C4 amended: a publish in which no listener throws notifies every entry  *)
(* of the listener list once, in registration order, each with the stream  *)
(* the publish stored; when a listener throws, the entries up to and       *)
(* including that one have been notified so, and the later ones not at all.*)
(***************************************************************************)
C4_FanOut ==
    IsPublish =>
        /\ Len(Notes) <= Len(listeners)
        /\ [i \in 1..Len(Notes) |-> Notes[i].listener] = SubSeq(listeners, 1, Len(Notes))
        /\ Exit = "return" => Len(Notes) = Len(listeners)
        /\ Exit = "throw" => Len(Notes) >= 1
        /\ \A i \in 1..Len(Notes) :
               /\ Notes[i].ev = "ProcessAdd"
               /\ Seen(algoStreamMap, lastCall.key) = {Notes[i].data}

C4_Witness ==
    /\ IsPublish
    /\ Exit = "return"
    /\ listeners = <<"O1", "O2">>
    /\ Len(Notes) = 2
    /\ Notes[1].listener = "O1"
    /\ Notes[2].listener = "O2"

(***************************************************************************)
(* C5: a ProcessAdd of the adapter makes exactly one publish, of the       *)
(* price it was given; a ProcessUpdate or ProcessRemove makes none and     *)
(* leaves the map, the counter and the listener list as they were, with    *)
(* no listener notified.                                                   *)
(***************************************************************************)
C5_AdapterAsymmetry ==
    [][/\ lastCall'.entry = "ProcessAdd" =>
            /\ TotalPublished' = TotalPublished + 1
            /\ published'[GetProductId(lastCall'.price.product)]
                   = published[GetProductId(lastCall'.price.product)] + 1
            /\ latest'[GetProductId(lastCall'.price.product)]
                   = {BuildAlgoStream(lastCall'.price, count)}
       /\ lastCall'.entry \in {"ProcessUpdate", "ProcessRemove"} =>
            /\ UNCHANGED <<algoStreamMap, count, listeners, published, latest>>
            /\ lastCall'.trace = <<>>]_vars

C5_Witness ==
    /\ lastCall.entry = "ProcessUpdate"
    /\ TotalPublished >= 1
    /\ algoStreamMap # {}
    /\ Len(listeners) >= 1

(***************************************************************************)
(* C6: GetData leaves the map (key set and entries), the counter and the   *)
(* listener list unchanged, for every product id, published or not.        *)
(***************************************************************************)
C6_GetDataIsPureRead ==
    [][lastCall'.entry = "GetData" =>
           UNCHANGED <<algoStreamMap, count, listeners>>]_vars

(***************************************************************************)
(* C7: a publish yields bid price mid - spread/2 with side Bid and offer   *)
(* price mid + spread/2 with side Offer for the input's product, and on a  *)
(* fresh registry Publish(IBM, 100.0, 0.02) then Publish(IBM, 101.0, 0.04) *)
(* yield (99.99, 1000000, 2000000) / (100.01, ..) and then                 *)
(* (100.98, 2000000, 4000000) / (101.02, ..).                              *)
(***************************************************************************)
PriceDerivation ==
    IsPublish =>
        /\ 2 * Bid(Built).price = 2 * lastCall.price.mid - lastCall.price.bidOfferSpread
        /\ 2 * Offer(Built).price = 2 * lastCall.price.mid + lastCall.price.bidOfferSpread
        /\ Bid(Built).side = BID
        /\ Offer(Built).side = OFFER
        /\ GetPriceStream(Built).product = lastCall.price.product

C7_PriceDerivation ==
    /\ PriceDerivation
    /\ (IsPublish /\ TotalPublished = 1 /\ lastCall.price = Price("IBM", 20000, 4)) =>
           Built = AlgoStream(PriceStream("IBM",
                       PriceStreamOrder(19998, 1000000, 2000000, BID),
                       PriceStreamOrder(20002, 1000000, 2000000, OFFER)))
    /\ (IsPublish /\ TotalPublished = 2 /\ lastCall.price = Price("IBM", 20200, 8)) =>
           Built = AlgoStream(PriceStream("IBM",
                       PriceStreamOrder(20196, 2000000, 4000000, BID),
                       PriceStreamOrder(20204, 2000000, 4000000, OFFER)))

(***************************************************************************)
(* C8: in a publish every notification comes after the counter increment   *)
(* and the map update of that call and before the call ends, and at each   *)
(* notification the map already holds, for the published key, the stream   *)
(* the notification carries.                                               *)
(***************************************************************************)
C8_StoreBeforeNotify ==
    IsPublish =>
        LET t == lastCall.trace
        IN  \A i \in DOMAIN t :
                t[i].listener # "" =>
                    /\ \E j \in 1..(i - 1) : t[j].ev = "count++" /\ t[i].cnt = t[j].cnt
                    /\ \E j \in 1..(i - 1) : t[j].ev = "update map"
                    /\ t[i].seen = {t[i].data}
                    /\ i < Len(t)
                    /\ Exit \in {"return", "throw"}

C8_Witness ==
    /\ IsPublish
    /\ Len(Notes) = 2
    /\ published[lastCall.key] >= 2
    /\ lastCall.trace[1].seen # {Built}
    /\ Notes[1].seen = {Built}

(***************************************************************************)
(* C9: a publish that ends with a listener's error leaves the map holding  *)
(* the new stream for the key and the counter one higher than before.      *)
(***************************************************************************)
C9_NoRollback ==
    [][(lastCall'.entry \in {"PublishAlgoStream", "ProcessAdd"}
            /\ lastCall'.trace[Len(lastCall'.trace)].ev = "throw") =>
           /\ Seen(algoStreamMap', lastCall'.key) = {BuildAlgoStream(lastCall'.price, count)}
           /\ count' = count + 1]_vars

C9_Witness ==
    /\ IsPublish
    /\ Exit = "throw"
    /\ Len(Notes) = 1
    /\ Len(listeners) = 2
    /\ Seen(algoStreamMap, lastCall.key) = {Built}
    /\ lastCall.trace[1].seen \notin {{}, {Built}}

(***************************************************************************)
(* C10: every notification the service makes is a ProcessAdd, also when    *)
(* the publish replaces an entry, and no operation but a publish notifies. *)
(***************************************************************************)
C10_OnlyProcessAdd ==
    /\ \A i \in 1..Len(Notes) : Notes[i].ev = "ProcessAdd"
    /\ ~IsPublish => lastCall.trace = <<>>

C10_Witness ==
    /\ IsPublish
    /\ published[lastCall.key] >= 2
    /\ lastCall.trace[1].seen \notin {{}, {DefaultAlgoStream}}
    /\ Len(Notes) >= 1
    /\ Notes[1].ev = "ProcessAdd"

(***************************************************************************)
(* C11: the counter goes up by exactly 1 on every publish, whatever the    *)
(* product, and no other operation changes it; so when two products are    *)
(* published in strict alternation A, B, A, B, ... on a fresh registry,    *)
(* every publish of A gets 1000000 and every publish of B gets 2000000.    *)
(***************************************************************************)
Alternating(o) == \A i \in 1..(Len(o) - 1) : o[i] # o[i + 1]

C11_SharedCounter ==
    [][/\ Len(order') = Len(order) + 1 => count' = count + 1
       /\ Len(order') = Len(order) => count' = count
       /\ (Len(order') = Len(order) + 1 /\ Alternating(order')) =>
              Bid(lastCall'.trace[1].data).visibleQuantity =
                  (IF lastCall'.key = order'[1] THEN 1000000 ELSE 2000000)]_vars

(***************************************************************************)
(* C13: no operation removes a key from the map: the key set of the map    *)
(* after any step contains the key set before it.                          *)
(***************************************************************************)
C13_KeysOnlyGrow ==
    [][MapKeys(algoStreamMap) \subseteq MapKeys(algoStreamMap')]_vars

C13_Witness ==
    /\ IsPublish
    /\ published[lastCall.key] >= 2
    /\ lastCall.trace[1].seen # {}
    /\ MapFind(algoStreamMap, lastCall.key)
    /\ MapKeys(algoStreamMap) = ProductIds

(***************************************************************************)
(* C14: every key of the map is a product id that was published at least   *)
(* once, and the stream stored under key k has product id k.               *)
(***************************************************************************)
C14_EntriesFromPublish ==
    \A p \in algoStreamMap :
        /\ published[p[1]] >= 1
        /\ GetProductId(GetPriceStream(p[2]).product) = p[1]

Occurrences(seq, x) == Cardinality({i \in DOMAIN seq : seq[i] = x})

C17_MissingKeyDefault ==
    (lastCall.entry = "GetData" /\ published[lastCall.key] = 0) =>
        /\ Cardinality(lastCall.result) = 1
        /\ \A a \in lastCall.result :
               /\ GetPriceStream(a).product = DefaultProduct
               /\ Bid(a).price = 0
               /\ Bid(a).visibleQuantity = 0
               /\ Bid(a).hiddenQuantity = 0
               /\ Offer(a).price = 0
               /\ Offer(a).visibleQuantity = 0
               /\ Offer(a).hiddenQuantity = 0
               /\ \A id \in ProductIds : a \notin latest[id]
               /\ \A p \in algoStreamMap : published[p[1]] >= 1 => p[2] # a

C17_Witness ==
    /\ lastCall.entry = "GetData"
    /\ published[lastCall.key] = 0
    /\ TotalPublished >= 1
    /\ lastCall.result = {DefaultAlgoStream}

(***************************************************************************)
(* C19: AddListener delivers nothing to the listener it adds, and a        *)
(* publish notifies only listeners that were in the list when the call     *)
(* began, each with the stream of that publish and nothing else from the   *)
(* map.                                                                    *)
(***************************************************************************)
C19_NoReplay ==
    [][/\ lastCall'.entry = "AddListener" => lastCall'.trace = <<>>
       /\ IsPublish' =>
              \A i \in DOMAIN lastCall'.trace :
                  lastCall'.trace[i].listener # "" =>
                      /\ \E j \in 1..Len(listeners) :
                             listeners[j] = lastCall'.trace[i].listener
                      /\ lastCall'.trace[i].data
                             = BuildAlgoStream(lastCall'.price, count)
                      /\ GetPriceStream(lastCall'.trace[i].data).product
                             = lastCall'.price.product]_vars

C19_Witness ==
    /\ lastCall.entry = "AddListener"
    /\ lastCall.key = "O2"
    /\ listeners = <<"O1", "O2">>
    /\ TotalPublished >= 1
    /\ lastCall.trace = <<>>

(***************************************************************************)
(* C20: a publish for product id p leaves the map entries of every other   *)
(* product id and the listener list as they were.                          *)
(***************************************************************************)
C20_PublishFrame ==
    [][IsPublish' =>
           /\ {p \in algoStreamMap' : p[1] # lastCall'.key}
                  = {p \in algoStreamMap : p[1] # lastCall'.key}
           /\ listeners' = listeners]_vars

C20_Witness ==
    /\ IsPublish
    /\ \E p \in algoStreamMap : p[1] # lastCall.key /\ published[p[1]] >= 1
    /\ Len(listeners) >= 1

(***************************************************************************)
(* ThreadSpec: PublishAlgoStream statement by statement, called by the     *)
(* threads of Threads.  The service takes no lock.  exec.mode says how the *)
(* callers behave:                                                         *)
(*   "serial"  one thread calls (the single producer the design assumes);  *)
(*   "locked"  two threads call, each holding one mutex around the call;   *)
(*   "racing"  two threads call with nothing around the call.              *)
(* In "racing" the accesses to count, the map and the vector are data      *)
(* races; the model interleaves whole statements, which is a subset of     *)
(* what such a build can do and is used only to show what can go wrong.    *)
(* The listeners are registered before the first publish.                  *)
(***************************************************************************)
Modes == {"serial", "locked", "racing"}

\* The prices the threads publish: two for one product, one for another.
ThreadPrices ==
    {Price("IBM", 20000, 4), Price("IBM", 20200, 8), Price("T", 20000, 4)}

Key(t) == GetProductId(exec.thr[t].price.product)

\* A step of thread t: its locals become th, and the step belongs to call th.n.
StepOf(t, th) == [exec EXCEPT !.thr[t] = th, !.cur = th.n]

TInit ==
    /\ algoStreamMap = {}
    /\ listeners = <<"O1", "O2">>
    /\ count \in IndeterminateLong
    /\ published = [id \in ProductIds |-> 0]
    /\ latest = [id \in ProductIds |-> {}]
    /\ lastCall = Call("AlgoStreamingService", NoPrice, "", {}, <<>>)
    /\ order = <<>>
    /\ \E m \in Modes : exec = [NoExec EXCEPT !.mode = m]

\* The caller takes the mutex before the call ("locked" only).
Acquire(t) ==
    /\ exec.mode = "locked"
    /\ exec.thr[t].pc = "idle"
    /\ exec.lock = 0
    /\ Len(order) < MaxPublishes
    /\ exec' = [exec EXCEPT !.lock = t, !.thr[t].pc = "locked"]
    /\ UNCHANGED <<algoStreamMap, listeners, count, published, latest, lastCall, order>>

\* The caller releases the mutex after the call ("locked" only).
Release(t) ==
    /\ exec.thr[t].pc = "unlock"
    /\ exec.lock = t
    /\ exec' = [exec EXCEPT !.lock = 0, !.thr[t].pc = "idle"]
    /\ UNCHANGED <<algoStreamMap, listeners, count, published, latest, lastCall, order>>

\* Where a call goes when it ends.
AfterCall == IF exec.mode = "locked" THEN "unlock" ELSE "idle"

\* PublishAlgoStream(price) is entered.
TBegin(t, price) ==
    /\ exec.mode \in Modes
    /\ exec.mode = "serial" => t = 1
    /\ exec.thr[t].pc = (IF exec.mode = "locked" THEN "locked" ELSE "idle")
    /\ Len(order) < MaxPublishes
    /\ exec' = StepOf(t, [IdleThread EXCEPT !.pc = "read", !.n = Len(order) + 1,
                                            !.price = price])
    /\ order' = Append(order, GetProductId(price.product))
    /\ published' = [published EXCEPT ![GetProductId(price.product)] = @ + 1]
    /\ UNCHANGED <<algoStreamMap, listeners, count, latest, lastCall>>

\* Lines 236-245 and 250-255: count is read once, for visibleQuantity; the
\* rest computes locals from the price.
TRead(t) ==
    LET th == exec.thr[t]
        algoStream == BuildAlgoStream(th.price, count)
    IN  /\ th.pc = "read"
        /\ exec' = [StepOf(t, [th EXCEPT !.pc = "incr", !.c = count,
                                         !.stream = algoStream])
                       EXCEPT !.reads = Append(@,
                           GetBidOrder(GetPriceStream(algoStream)).visibleQuantity)]
        /\ latest' = [latest EXCEPT ![Key(t)] = {algoStream}]
        /\ UNCHANGED <<algoStreamMap, listeners, count, published, lastCall, order>>

\* Mutant: the counter is not incremented.
TIncrement_Skipped(t) ==
    LET th == exec.thr[t]
    IN  /\ th.pc = "incr"
        /\ exec' = StepOf(t, [th EXCEPT !.pc = "erase"])
        /\ UNCHANGED <<algoStreamMap, listeners, count, published, latest, lastCall, order>>

\* count++
TIncrement(t) ==
    LET th == exec.thr[t]
    IN  /\ th.pc = "incr"
        /\ count' = NextCount(count)
        /\ exec' = StepOf(t, [th EXCEPT !.pc = "erase"])
        /\ UNCHANGED <<algoStreamMap, listeners, published, latest, lastCall, order>>

\* if (find(key) != end()) erase(key)
TErase(t) ==
    LET th == exec.thr[t]
    IN  /\ th.pc = "erase"
        /\ algoStreamMap' = IF MapFind(algoStreamMap, Key(t))
                              THEN MapErase(algoStreamMap, Key(t))
                              ELSE algoStreamMap
        /\ exec' = StepOf(t, [th EXCEPT !.pc = "insert"])
        /\ UNCHANGED <<listeners, count, published, latest, lastCall, order>>

\* insert(pair(key, algoStream))
TInsert(t) ==
    LET th == exec.thr[t]
    IN  /\ th.pc = "insert"
        /\ algoStreamMap' = MapInsert(algoStreamMap, Key(t), th.stream)
        /\ exec' = StepOf(t, [th EXCEPT !.pc = "notify", !.i = 1])
        /\ UNCHANGED <<listeners, count, published, latest, lastCall, order>>

\* listener->ProcessAdd(algoStream) for listener number i; the listener
\* returns, or throws and so ends the call.
TNotify(t, throws) ==
    LET th == exec.thr[t]
    IN  /\ th.pc = "notify"
        /\ th.i <= Len(listeners)
        /\ exec' = StepOf(t, [th EXCEPT !.i = @ + 1,
                                        !.threw = throws,
                                        !.pc = IF throws THEN AfterCall ELSE "notify"])
        /\ UNCHANGED <<algoStreamMap, listeners, count, published, latest, lastCall, order>>

\* Mutant: the loop is left after the first listener.
TReturn_AfterFirst(t) ==
    LET th == exec.thr[t]
    IN  /\ th.pc = "notify"
        /\ th.i > 1
        /\ exec' = StepOf(t, [th EXCEPT !.pc = AfterCall])
        /\ UNCHANGED <<algoStreamMap, listeners, count, published, latest, lastCall, order>>

\* The loop is over: the call returns.
TReturn(t) ==
    LET th == exec.thr[t]
    IN  /\ th.pc = "notify"
        /\ th.i > Len(listeners)
        /\ exec' = StepOf(t, [th EXCEPT !.pc = AfterCall])
        /\ UNCHANGED <<algoStreamMap, listeners, count, published, latest, lastCall, order>>

TNext ==
    \/ \E t \in Threads : Acquire(t)
    \/ \E t \in Threads : Release(t)
    \/ \E t \in Threads : \E price \in ThreadPrices : TBegin(t, price)
    \/ \E t \in Threads : TRead(t)
    \/ \E t \in Threads : TIncrement(t)
    \/ \E t \in Threads : TErase(t)
    \/ \E t \in Threads : TInsert(t)
    \/ \E t \in Threads : \E throws \in BOOLEAN : TNotify(t, throws)
    \/ \E t \in Threads : TReturn(t)

ThreadSpec == TInit /\ [][TNext]_vars

(***************************************************************************)
(* Vocabulary of the ThreadSpec properties                                 *)
(***************************************************************************)
\* The step from the unprimed to the primed state enters a call of thread t.
Begins(t) == exec.thr[t].pc # "read" /\ exec'.thr[t].pc = "read"

\* The step is a notification made by thread t.
Notifies(t) == exec.thr[t].pc = "notify" /\ exec'.thr[t].i = exec.thr[t].i + 1

\* A call has done all it does: every listener was called, or one threw.
Finished(th) == th.i = Len(listeners) + 1 \/ th.threw

(***************************************************************************)
(* C12: when one thread calls PublishAlgoStream again and again, a call    *)
(* begins only after the call before it has incremented the counter,       *)
(* updated the map and made all its notifications; no step of an earlier   *)
(* call follows a step of a later one, so listeners are notified in call   *)
(* order; and between calls the map holds, for every published key, the    *)
(* stream of the last call for that key.                                   *)
(***************************************************************************)
C12_NoInterleaving ==
    [][exec.mode = "serial" =>
           /\ \A t \in Threads : \A u \in Threads :
                  (Begins(t) /\ Len(order) >= 1 /\ exec.thr[u].n = Len(order)) =>
                      /\ count = exec.thr[u].c + 1
                      /\ Seen(algoStreamMap, Key(u)) = {exec.thr[u].stream}
                      /\ Finished(exec.thr[u])
           /\ exec'.cur >= exec.cur
           /\ (\A t \in Threads : exec'.thr[t].pc = "idle") =>
                  \A id \in ProductIds :
                      published'[id] >= 1 => Seen(algoStreamMap', id) = latest'[id]]_vars

C12_Witness ==
    /\ exec.mode = "serial"
    /\ exec.thr[1].n = 2
    /\ order = <<"IBM", "IBM">>
    /\ exec.thr[1].pc = "notify"
    /\ exec.thr[1].i = 3
    /\ Seen(algoStreamMap, "IBM") = {exec.thr[1].stream}
    /\ Len(exec.reads) = 2

(***************************************************************************)
(* C18: the service takes no lock.  When the two threads hold one mutex    *)
(* around each call, the visible quantities alternate strictly in the      *)
(* order the calls are made, every notification is made with the map       *)
(* holding the call's stream and the counter one above what the call read, *)
(* and the steps of two calls never interleave.  (The witness is the other *)
(* half of the claim: without the mutex two calls read the same counter    *)
(* value and publish the same visible quantity.)                           *)
(***************************************************************************)
C18_LockSerialises ==
    [][exec.mode = "locked" =>
           /\ \A i \in 1..(Len(exec'.reads) - 1) : exec'.reads[i] # exec'.reads[i + 1]
           /\ \A t \in Threads :
                  Notifies(t) =>
                      /\ Seen(algoStreamMap, Key(t)) = {exec.thr[t].stream}
                      /\ count = exec.thr[t].c + 1
           /\ exec'.cur >= exec.cur]_vars

C18_Witness ==
    /\ exec.mode = "racing"
    /\ exec.thr[1].n = 1
    /\ exec.thr[2].n = 2
    /\ exec.thr[1].c = exec.thr[2].c
    /\ exec.reads \in {<<1000000, 1000000>>, <<2000000, 2000000>>}
    /\ exec.thr[1].pc = "idle"
    /\ exec.thr[2].pc = "idle"
    /\ exec.thr[1].i = Len(listeners) + 1
    /\ exec.thr[2].i = Len(listeners) + 1
    /\ count = exec.thr[1].c + 2

====
